---- MODULE Spec2Model ----
(***************************************************************************)
(* Knowledge engine of src/minesweeper.py: class Sentence and class        *)
(* MinesweeperAI, driven by the oracle board of class Minesweeper.         *)
(*                                                                         *)
(* Python sentences are mutable objects that the knowledge list and the    *)
(* per-pass snapshots (copy_kb, kb_copy) share by reference.  The model    *)
(* keeps them in a heap `sentences` (object id -> cells, count); the lists *)
(* `knowledge` and `kb_copy` are sequences of object ids.                  *)
(***************************************************************************)
EXTENDS Integers, Sequences, FiniteSets, TLC

\* ---- bounds of the model ----
Height == 2
Width == 3
MaxMines == 2
MaxCopies == 2
MaxCalls == 2
MaxEngineCalls == 2
MaxCount == 1
MaxSentences == 2
MaxSentenceCells == 2

\* board: the oracle's mines.  moves_made .. knowledge: the engine.
\* kb_copy, pos1, pos2, change, pc: the locals and position of a running
\* inference_update.  call, pre, had, ops: history of the calls made.
VARIABLES board, moves_made, mines, safes, sentences, knowledge,
          kb_copy, pos1, pos2, change, pc, call, pre, had, ops

vars == <<board, moves_made, mines, safes, sentences, knowledge,
          kb_copy, pos1, pos2, change, pc, call, pre, had, ops>>

\* ---- the grid and the oracle (class Minesweeper) ----
Cells == (0 .. Height - 1) \X (0 .. Width - 1)

\* the in-bounds cells of the 3x3 block around cell, cell included
Block(cell) ==
    { n \in Cells : /\ n[1] >= cell[1] - 1 /\ n[1] <= cell[1] + 1
                    /\ n[2] >= cell[2] - 1 /\ n[2] <= cell[2] + 1 }

Neighbours(cell) == Block(cell) \ {cell}

is_mine(cell) == cell \in board

nearby_mines(cell) == Cardinality({ n \in Neighbours(cell) : n \in board })

\* ---- class Sentence ----
Sentence(cells, count) == [cells |-> cells, count |-> count]

known_mines(s) == IF Cardinality(s.cells) = s.count THEN s.cells ELSE {}

known_safes(s) == IF s.count = 0 THEN s.cells ELSE {}

\* the count is not taken below 0
SentenceMarkMineFloor(s, cell) ==
    IF cell \in s.cells
    THEN [cells |-> s.cells \ {cell},
          count |-> IF s.count > 0 THEN s.count - 1 ELSE 0]
    ELSE s

\* the count is not decremented
SentenceMarkMineKeepsCount(s, cell) ==
    IF cell \in s.cells
    THEN [cells |-> s.cells \ {cell}, count |-> s.count]
    ELSE s

\* the count is decremented whether or not the cell is in the sentence
SentenceMarkMineAlways(s, cell) ==
    [cells |-> s.cells \ {cell}, count |-> s.count - 1]

SentenceMarkMine(s, cell) ==
    IF cell \in s.cells
    THEN [cells |-> s.cells \ {cell}, count |-> s.count - 1]
    ELSE s

\* the count is decremented for a safe cell too
SentenceMarkSafeDecrements(s, cell) ==
    IF cell \in s.cells
    THEN [cells |-> s.cells \ {cell}, count |-> s.count - 1]
    ELSE s

SentenceMarkSafe(s, cell) ==
    IF cell \in s.cells
    THEN [cells |-> s.cells \ {cell}, count |-> s.count]
    ELSE s

\* ---- class MinesweeperAI: the engine state as a value ----
\* st = [mines, safes, sentences, knowledge]
Range(seq) == { seq[k] : k \in 1 .. Len(seq) }

Engine == [mines |-> mines, safes |-> safes,
           sentences |-> sentences, knowledge |-> knowledge]

\* Python evaluates an argument once, before the call: F is applied to the
\* value of v
Strict(F(_), v) == CHOOSE r \in { F(x) : x \in {v} } : TRUE

\* the cell is recorded but the sentences are not told
MarkMineNoPropagation(engine, cell) ==
    [engine EXCEPT !.mines = @ \cup {cell}]

mark_mine(engine, cell) == Strict(LAMBDA st :
    [st EXCEPT !.mines = @ \cup {cell},
               !.sentences = [id \in DOMAIN st.sentences |->
                   IF id \in Range(st.knowledge)
                   THEN SentenceMarkMine(st.sentences[id], cell)
                   ELSE st.sentences[id]]], engine)

\* the cell is recorded but the sentences are not told
MarkSafeNoPropagation(engine, cell) ==
    [engine EXCEPT !.safes = @ \cup {cell}]

mark_safe(engine, cell) == Strict(LAMBDA st :
    [st EXCEPT !.safes = @ \cup {cell},
               !.sentences = [id \in DOMAIN st.sentences |->
                   IF id \in Range(st.knowledge)
                   THEN SentenceMarkSafe(st.sentences[id], cell)
                   ELSE st.sentences[id]]], engine)

\* for cell in cells: self.mark_mine(cell)
RECURSIVE MarkAllMine(_, _)
MarkAllMine(st, cells) ==
    IF cells = {} THEN st
    ELSE LET c == CHOOSE x \in cells : TRUE
         IN MarkAllMine(mark_mine(st, c), cells \ {c})

\* for cell in cells: self.mark_safe(cell)
RECURSIVE MarkAllSafe(_, _)
MarkAllSafe(st, cells) ==
    IF cells = {} THEN st
    ELSE LET c == CHOOSE x \in cells : TRUE
         IN MarkAllSafe(mark_safe(st, c), cells \ {c})

\* list.remove(sentence): drops the first element that is == sentence
\* (Sentence.__eq__ is structural); the CHOOSE has no value where Python
\* would raise ValueError.
ListRemove(st, s) ==
    LET k == CHOOSE x \in 1 .. Len(st.knowledge) :
                 /\ st.sentences[st.knowledge[x]] = s
                 /\ \A y \in 1 .. x - 1 : st.sentences[st.knowledge[y]] # s
    IN [st EXCEPT !.knowledge =
           SubSeq(st.knowledge, 1, k - 1) \o
           SubSeq(st.knowledge, k + 1, Len(st.knowledge))]

\* self.knowledge.append(new_sentence): a new object
ListAppend(st, s) ==
    LET id == Len(st.sentences) + 1
    IN [st EXCEPT !.sentences = Append(@, s),
                  !.knowledge = Append(@, id)]

\* one pass of the for loop of trivial_update over the snapshot copy_kb,
\* from position k on; returns the engine and the change flag
RECURSIVE TrivialPass(_, _, _, _)
TrivialPass(engine, copy_kb, k, chg) == Strict(LAMBDA st :
    IF k > Len(copy_kb) THEN [st |-> st, change |-> chg]
    ELSE LET sentence == st.sentences[copy_kb[k]]
         IN IF Cardinality(sentence.cells) = 0
            THEN TrivialPass(ListRemove(st, sentence), copy_kb, k + 1, chg)
            ELSE IF sentence.count = Cardinality(sentence.cells)
            THEN TrivialPass(MarkAllMine(st, sentence.cells), copy_kb, k + 1, TRUE)
            ELSE IF sentence.count = 0
            THEN TrivialPass(MarkAllSafe(st, sentence.cells), copy_kb, k + 1, TRUE)
            ELSE TrivialPass(st, copy_kb, k + 1, chg), engine)

\* a single pass, no while loop
TrivialUpdateOnePass(engine) ==
    TrivialPass(engine, engine.knowledge, 1, FALSE).st

RECURSIVE trivial_update(_)
trivial_update(engine) == Strict(LAMBDA r :
    IF r.change THEN trivial_update(r.st) ELSE r.st,
    Strict(LAMBDA st : TrivialPass(st, st.knowledge, 1, FALSE), engine))

\* a count of 0 or less is taken for all safe
ClassifyNonPositive(st, new_sentence) ==
    IF new_sentence.count <= 0
    THEN MarkAllSafe(st, new_sentence.cells)
    ELSE IF new_sentence.count = Cardinality(new_sentence.cells)
    THEN MarkAllMine(st, new_sentence.cells)
    ELSE ListAppend(st, new_sentence)

\* the two markings exchanged
ClassifySwapped(st, new_sentence) ==
    IF new_sentence.count = 0
    THEN MarkAllMine(st, new_sentence.cells)
    ELSE IF new_sentence.count = Cardinality(new_sentence.cells)
    THEN MarkAllSafe(st, new_sentence.cells)
    ELSE ListAppend(st, new_sentence)

\* classification of a new sentence, shared by add_knowledge (lines 263-270)
\* and inference_update (lines 211-218)
Classify(st, new_sentence) ==
    IF new_sentence.count = 0
    THEN MarkAllSafe(st, new_sentence.cells)
    ELSE IF new_sentence.count = Cardinality(new_sentence.cells)
    THEN MarkAllMine(st, new_sentence.cells)
    ELSE ListAppend(st, new_sentence)

\* objects no list refers to are dropped and the rest renumbered in list
\* order (object identity carries no other information)
Compact(st) ==
    [st EXCEPT !.sentences = [k \in 1 .. Len(st.knowledge) |->
                                 st.sentences[st.knowledge[k]]],
               !.knowledge = [k \in 1 .. Len(st.knowledge) |-> k]]

\* cells known to be safe are not skipped
CellsToStoreWithSafes(cell, mm, st) ==
    { n \in Block(cell) : n \notin mm /\ n \notin st.mines }

\* played and safe cells are not skipped
CellsToStoreNoSkip(cell, mm, st) ==
    { n \in Block(cell) : n \notin st.mines }

\* lines 243-260 of add_knowledge: the unclassified in-bounds neighbours,
\* and the count less the neighbours already known to be mines
cells_to_store(cell, mm, st) ==
    { n \in Block(cell) : n \notin mm /\ n \notin st.mines /\ n \notin st.safes }

RemainingCount(cell, count, mm, st) ==
    count - Cardinality({ n \in Block(cell) : n \notin mm /\ n \in st.mines })

\* add_knowledge up to and including its call of trivial_update (line 271);
\* mm is moves_made after line 238
\* add_knowledge, lines 240-270: the engine on entry to trivial_update
AddKnowledgeClassified(engine, cell, count, mm) == Strict(LAMBDA st1 :
    Classify(st1, Sentence(cells_to_store(cell, mm, st1),
                           RemainingCount(cell, count, mm, st1))),
    mark_safe(engine, cell))

AddKnowledgeBody(engine, cell, count, mm) ==
    Compact(trivial_update(AddKnowledgeClassified(engine, cell, count, mm)))

\* the sentence add_knowledge builds (line 261)
NewSentence(st, cell, count, mm) ==
    LET st1 == mark_safe(st, cell)
    IN Sentence(cells_to_store(cell, mm, st1),
                RemainingCount(cell, count, mm, st1))

\* ---- inference_update: the pair scan over the snapshot kb_copy ----
\* the test of lines 206-208 on the current contents of the two objects
Derives(a, b) ==
    LET sentence_1 == sentences[kb_copy[a]]
        sentence_2 == sentences[kb_copy[b]]
    IN /\ sentence_1 # sentence_2
       /\ sentence_1.cells \subseteq sentence_2.cells

PairBefore(p, q) == p[1] < q[1] \/ (p[1] = q[1] /\ p[2] < q[2])

\* the inner loop starts after the position of the outer one
PairsLeftOrdered ==
    { p \in (1 .. Len(kb_copy)) \X (1 .. Len(kb_copy)) :
        ~ PairBefore(p, <<pos1, pos2>>) /\ p[1] < p[2] }

\* the pairs the two for loops have still to visit, and those that derive
PairsLeft ==
    { p \in (1 .. Len(kb_copy)) \X (1 .. Len(kb_copy)) :
        ~ PairBefore(p, <<pos1, pos2>>) }

DerivingPairs == { p \in PairsLeft : Derives(p[1], p[2]) }

NextPair == CHOOSE p \in DerivingPairs :
                \A q \in DerivingPairs : ~ PairBefore(q, p)

\* the counts subtracted the wrong way round
DifferenceSwapped(a, b) ==
    LET sentence_1 == sentences[kb_copy[a]]
        sentence_2 == sentences[kb_copy[b]]
    IN Sentence(sentence_2.cells \ sentence_1.cells,
                sentence_1.count - sentence_2.count)

\* line 209
Difference(a, b) ==
    LET sentence_1 == sentences[kb_copy[a]]
        sentence_2 == sentences[kb_copy[b]]
    IN Sentence(sentence_2.cells \ sentence_1.cells,
                sentence_2.count - sentence_1.count)

IsTrivial(s) == s.count = 0 \/ s.count = Cardinality(s.cells)

\* the number of objects in the knowledge list that are == s
Copies(st, s) ==
    Cardinality({ k \in 1 .. Len(st.knowledge) :
                    st.sentences[st.knowledge[k]] = s })

\* the model stores at most MaxCopies equal sentences
Full(st, s) == ~ IsTrivial(s) /\ Copies(st, s) >= MaxCopies

\* a pass of the two for loops over the list of st finds no pair to derive
\* from (lines 204-208 fail throughout)
Quiet(st) ==
    \A a, b \in 1 .. Len(st.knowledge) :
        LET sentence_1 == st.sentences[st.knowledge[a]]
            sentence_2 == st.sentences[st.knowledge[b]]
        IN ~ (sentence_1 # sentence_2 /\ sentence_1.cells \subseteq sentence_2.cells)

\* ---- history ----
\* what a caller can read of the engine: the three sets and the list
Observable(mm, st) ==
    [moves_made |-> mm, mines |-> st.mines, safes |-> st.safes,
     kb |-> [k \in 1 .. Len(st.knowledge) |-> st.sentences[st.knowledge[k]]]]

Live(st) == { st.sentences[id] : id \in Range(st.knowledge) }

\* the cells of the sentences that are all mines, and of those that are all
\* safe, in the engine trivial_update is entered with, added to those of the
\* earlier entries
Had(st) ==
    [mines |-> had.mines \cup
               UNION { s.cells : s \in { t \in Live(st) :
                          t.cells # {} /\ t.count = Cardinality(t.cells) } },
     safes |-> had.safes \cup
               UNION { s.cells : s \in { t \in Live(st) : t.count = 0 } }]

NoCall == [op |-> "none", cell |-> <<0, 0>>, count |-> 0,
           fresh |-> FALSE, repeat |-> FALSE, hit |-> FALSE]

NoPre == Observable({}, [mines |-> {}, safes |-> {},
                         sentences |-> <<>>, knowledge |-> <<>>])

NoHad == [mines |-> {}, safes |-> {}]

IsFresh == moves_made = {} /\ mines = {} /\ safes = {} /\ knowledge = <<>>

Hit(cell) == \E s \in Live(Engine) : cell \in s.cells

\* ---- actions ----

Boards == { b \in SUBSET Cells : Cardinality(b) <= MaxMines }

Init ==
    /\ board \in Boards
    /\ moves_made = {}
    /\ mines = {}
    /\ safes = {}
    /\ sentences = <<>>
    /\ knowledge = <<>>
    /\ kb_copy = <<>>
    /\ pos1 = 1
    /\ pos2 = 1
    /\ change = FALSE
    /\ pc = "idle"
    /\ call = NoCall
    /\ pre = NoPre
    /\ had = NoHad
    /\ ops = 0

\* add_knowledge(cell, count), lines 238-271, then inference_update: up to
\* the snapshot of its first pass (lines 200-203) when that pass has a pair
\* to derive from, and to its return (line 220) when it has none
AddKnowledge(cell, count) ==
    /\ pc = "idle"
    /\ ~ Full(mark_safe(Engine, cell),
              NewSentence(Engine, cell, count, moves_made \cup {cell}))
    /\ \E st \in {AddKnowledgeBody(Engine, cell, count, moves_made \cup {cell})} :
          /\ moves_made' = moves_made \cup {cell}
          /\ mines' = st.mines
          /\ safes' = st.safes
          /\ sentences' = st.sentences
          /\ knowledge' = st.knowledge
          /\ kb_copy' = IF Quiet(st) THEN <<>> ELSE st.knowledge
          /\ pc' = IF Quiet(st) THEN "idle" ELSE "scan"
    /\ call' = [op |-> "add_knowledge", cell |-> cell, count |-> count,
                fresh |-> IsFresh, repeat |-> cell \in moves_made,
                hit |-> Hit(cell)]
    /\ pre' = IF cell \in moves_made THEN Observable(moves_made, Engine)
                                      ELSE NoPre
    /\ had' = Had(AddKnowledgeClassified(Engine, cell, count,
                                         moves_made \cup {cell}))
    /\ change' = FALSE
    /\ pos1' = 1
    /\ pos2' = 1
    /\ UNCHANGED board

\* the driver's call: a cell the oracle says is no mine, with its true count
Observe ==
    \E cell \in Cells :
        /\ ~ is_mine(cell)
        /\ ops < MaxCalls
        /\ AddKnowledge(cell, nearby_mines(cell))
        /\ ops' = ops + 1

\* lines 209-219 for the pair p: derive, classify (the append left out when
\* keep is FALSE), run trivial_update
DeriveClassified(p, keep) ==
    IF keep THEN Classify(Engine, Difference(p[1], p[2])) ELSE Engine

DeriveResult(p, keep) == trivial_update(DeriveClassified(p, keep))

\* lines 204-219: the scan runs on to the next pair that passes the tests of
\* lines 206-208, derives from it, classifies and runs trivial_update
Derive ==
    /\ pc = "scan"
    /\ DerivingPairs # {}
    /\ ~ Full(Engine, Difference(NextPair[1], NextPair[2]))
    /\ \E st \in {DeriveResult(NextPair, TRUE)} :
          /\ mines' = st.mines
          /\ safes' = st.safes
          /\ sentences' = st.sentences
          /\ knowledge' = st.knowledge
    /\ pos1' = NextPair[1]
    /\ pos2' = NextPair[2] + 1
    /\ change' = TRUE
    /\ had' = Had(DeriveClassified(NextPair, TRUE))
    /\ UNCHANGED <<board, moves_made, kb_copy, pc, call, pre, ops>>

\* the same step when the list already holds MaxCopies sentences ==
\* new_sentence: the further copy is not stored
DeriveAgain ==
    /\ pc = "scan"
    /\ DerivingPairs # {}
    /\ Full(Engine, Difference(NextPair[1], NextPair[2]))
    /\ \E st \in {DeriveResult(NextPair, FALSE)} :
          /\ mines' = st.mines
          /\ safes' = st.safes
          /\ sentences' = st.sentences
          /\ knowledge' = st.knowledge
    /\ pos1' = NextPair[1]
    /\ pos2' = NextPair[2] + 1
    /\ change' = TRUE
    /\ had' = Had(DeriveClassified(NextPair, FALSE))
    /\ UNCHANGED <<board, moves_made, kb_copy, pc, call, pre, ops>>

\* the for loops run out with change set: the while test succeeds and the
\* next pass takes its snapshot (lines 201-203)
NextPass ==
    /\ pc = "scan"
    /\ DerivingPairs = {}
    /\ change
    /\ \E st \in {Compact(Engine)} :
          /\ sentences' = st.sentences
          /\ knowledge' = st.knowledge
          /\ kb_copy' = st.knowledge
    /\ change' = FALSE
    /\ pos1' = 1
    /\ pos2' = 1
    /\ UNCHANGED <<board, moves_made, mines, safes, pc, call, pre, had, ops>>

\* the for loops run out with change unset: the while test fails,
\* inference_update and add_knowledge return (line 220)
Return ==
    /\ pc = "scan"
    /\ DerivingPairs = {}
    /\ ~ change
    /\ \E st \in {Compact(Engine)} :
          /\ sentences' = st.sentences
          /\ knowledge' = st.knowledge
    /\ kb_copy' = <<>>
    /\ pos1' = 1
    /\ pos2' = 1
    /\ pc' = "idle"
    /\ UNCHANGED <<board, moves_made, mines, safes, change, call, pre, had, ops>>

Next == Observe \/ Derive \/ NextPass \/ Return

\* ---- the engine driven directly: mark_mine, mark_safe and add_knowledge
\* with any cell and any count ----
MarkMine ==
    \E cell \in Cells :
        /\ pc = "idle"
        /\ ops < MaxEngineCalls
        /\ \E st \in {mark_mine(Engine, cell)} :
              /\ mines' = st.mines
              /\ safes' = st.safes
              /\ sentences' = st.sentences
              /\ knowledge' = st.knowledge
        /\ call' = [op |-> "mark_mine", cell |-> cell, count |-> 0,
                    fresh |-> IsFresh, repeat |-> cell \in mines,
                    hit |-> Hit(cell)]
        /\ ops' = ops + 1
        /\ UNCHANGED <<board, moves_made, kb_copy, pos1, pos2, change, pc,
                       pre, had>>

MarkSafe ==
    \E cell \in Cells :
        /\ pc = "idle"
        /\ ops < MaxEngineCalls
        /\ \E st \in {mark_safe(Engine, cell)} :
              /\ mines' = st.mines
              /\ safes' = st.safes
              /\ sentences' = st.sentences
              /\ knowledge' = st.knowledge
        /\ call' = [op |-> "mark_safe", cell |-> cell, count |-> 0,
                    fresh |-> IsFresh, repeat |-> cell \in safes,
                    hit |-> Hit(cell)]
        /\ ops' = ops + 1
        /\ UNCHANGED <<board, moves_made, kb_copy, pos1, pos2, change, pc,
                       pre, had>>

Ingest ==
    \E cell \in Cells, count \in 0 .. MaxCount :
        /\ ops < MaxEngineCalls
        /\ AddKnowledge(cell, count)
        /\ ops' = ops + 1

InitEngine == Init /\ board = {}

NextEngine ==
    MarkMine \/ MarkSafe \/ Ingest \/ Derive \/ NextPass \/ Return

SpecEngine == InitEngine /\ [][NextEngine]_vars

\* ---- inference_update run on a knowledge base of two sentences ----
\* inference_update makes no use of where a cell lies: the two sentences
\* are drawn over the six cells around the middle of the top row
InferCells == Block(<<0, 1>>)

NonTrivial(cells) ==
    { Sentence(cells, count) : count \in 1 .. Cardinality(cells) - 1 }

InitInfer ==
    /\ board = {}
    /\ moves_made = {}
    /\ mines = {}
    /\ safes = {}
    /\ \E cells2 \in SUBSET InferCells :
          \E cells1 \in (SUBSET cells2) \ {cells2} :
             \E s1 \in NonTrivial(cells1), s2 \in NonTrivial(cells2) :
                sentences \in {<<s1, s2>>, <<s2, s1>>}
    /\ knowledge = <<1, 2>>
    /\ kb_copy = <<1, 2>>
    /\ pos1 = 1
    /\ pos2 = 1
    /\ change = FALSE
    /\ pc = "scan"
    /\ call = [NoCall EXCEPT !.op = "inference_update"]
    /\ pre = Observable({}, Engine)
    /\ had = NoHad
    /\ ops = 0

NextInfer == Derive \/ NextPass \/ Return

SpecInfer == InitInfer /\ [][NextInfer]_vars

\* ---- trivial_update run on a knowledge base that is true of the board ----
\* trivial_update makes no use of where a cell lies: the mines and the
\* sentences are drawn over the four cells of the corner
TrivialCells == Block(<<0, 0>>)

TrueSentences ==
    { Sentence(cells, Cardinality(cells \cap board)) :
        cells \in { c \in SUBSET TrivialCells :
                      Cardinality(c) <= MaxSentenceCells } }

InitTrivial ==
    /\ board \in { b \in Boards : b \subseteq TrivialCells }
    /\ moves_made = {}
    /\ mines = {}
    /\ safes = {}
    /\ \E n \in 0 .. MaxSentences :
          /\ sentences \in [1 .. n -> TrueSentences]
          /\ knowledge = [k \in 1 .. n |-> k]
          /\ ops = IF n = 0 THEN 0 ELSE MaxCalls
    /\ kb_copy = <<>>
    /\ pos1 = 1
    /\ pos2 = 1
    /\ change = FALSE
    /\ pc = "trivial"
    /\ call = NoCall
    /\ pre = NoPre
    /\ had = NoHad

TrivialUpdate ==
    /\ pc = "trivial"
    /\ \E st \in {Compact(trivial_update(Engine))} :
          /\ mines' = st.mines
          /\ safes' = st.safes
          /\ sentences' = st.sentences
          /\ knowledge' = st.knowledge
    /\ had' = Had(Engine)
    /\ call' = [NoCall EXCEPT !.op = "trivial_update"]
    /\ pc' = "idle"
    /\ UNCHANGED <<board, moves_made, kb_copy, pos1, pos2, change, pre, ops>>

NextTrivial == TrivialUpdate \/ Next

SpecTrivial == InitTrivial /\ [][NextTrivial]_vars

\* ---- trivial_update pass by pass, on any knowledge base ----
\* the sentences are drawn over the three neighbours of the corner, with
\* counts from one below 0 to one above the number of cells
PassCells == Neighbours(<<0, 0>>)

AnySentences ==
    UNION { { Sentence(cells, count) : count \in -1 .. Cardinality(cells) + 1 } :
            cells \in SUBSET PassCells }

InitPasses ==
    /\ board = {}
    /\ moves_made = {}
    /\ mines = {}
    /\ safes = {}
    /\ \E n \in 0 .. MaxSentences :
          /\ sentences \in [1 .. n -> AnySentences]
          /\ knowledge = [k \in 1 .. n |-> k]
    /\ kb_copy = <<>>
    /\ pos1 = 1
    /\ pos2 = 1
    /\ change = TRUE
    /\ pc = "trivial"
    /\ call = [NoCall EXCEPT !.op = "trivial_update"]
    /\ pre = NoPre
    /\ had = NoHad
    /\ ops = 0

\* lines 181-195: the while test succeeds and one pass of the for loop runs
TrivialPassStep ==
    /\ pc = "trivial"
    /\ change
    /\ \E r \in {TrivialPass(Engine, knowledge, 1, FALSE)} :
          /\ mines' = r.st.mines
          /\ safes' = r.st.safes
          /\ sentences' = r.st.sentences
          /\ knowledge' = r.st.knowledge
          /\ change' = r.change
    /\ UNCHANGED <<board, moves_made, kb_copy, pos1, pos2, pc, call, pre,
                   had, ops>>

\* lines 181 and 197: the while test fails and trivial_update returns
TrivialReturn ==
    /\ pc = "trivial"
    /\ ~ change
    /\ pc' = "idle"
    /\ UNCHANGED <<board, moves_made, mines, safes, sentences, knowledge,
                   kb_copy, pos1, pos2, change, call, pre, had, ops>>

NextPasses == TrivialPassStep \/ TrivialReturn

\* the interpreter runs the call to its end
SpecPasses == InitPasses /\ [][NextPasses]_vars /\ WF_vars(NextPasses)

\* ---- class Sentence on its own: one sentence, marked cell by cell ----
InitSentence ==
    /\ board = {}
    /\ moves_made = {}
    /\ mines = {}
    /\ safes = {}
    /\ sentences \in [1 .. 1 -> AnySentences]
    /\ knowledge = <<1>>
    /\ kb_copy = <<>>
    /\ pos1 = 1
    /\ pos2 = 1
    /\ change = FALSE
    /\ pc = "idle"
    /\ call = NoCall
    /\ pre = NoPre
    /\ had = NoHad
    /\ ops = 0

\* sentence.mark_mine(cell), lines 123-132
SentenceMarkMineCall ==
    \E cell \in Cells :
        /\ sentences' = [sentences EXCEPT ![1] = SentenceMarkMine(@, cell)]
        /\ call' = [op |-> "Sentence.mark_mine", cell |-> cell, count |-> 0,
                    fresh |-> FALSE, repeat |-> FALSE,
                    hit |-> cell \in sentences[1].cells]
        /\ pre' = Observable(moves_made, Engine)
        /\ UNCHANGED <<board, moves_made, mines, safes, knowledge, kb_copy,
                       pos1, pos2, change, pc, had, ops>>

\* sentence.mark_safe(cell), lines 134-141
SentenceMarkSafeCall ==
    \E cell \in Cells :
        /\ sentences' = [sentences EXCEPT ![1] = SentenceMarkSafe(@, cell)]
        /\ call' = [op |-> "Sentence.mark_safe", cell |-> cell, count |-> 0,
                    fresh |-> FALSE, repeat |-> FALSE,
                    hit |-> cell \in sentences[1].cells]
        /\ pre' = Observable(moves_made, Engine)
        /\ UNCHANGED <<board, moves_made, mines, safes, knowledge, kb_copy,
                       pos1, pos2, change, pc, had, ops>>

NextSentence == SentenceMarkMineCall \/ SentenceMarkSafeCall

SpecSentence == InitSentence /\ [][NextSentence]_vars

Spec == Init /\ [][Next]_vars

\* the running call is executed to its end by the interpreter; the driver is
\* under no obligation to call again
NextLoop == Next \/ DeriveAgain

FairSpec ==
    /\ Init
    /\ [][NextLoop]_vars
    /\ WF_vars(Derive \/ DeriveAgain \/ NextPass \/ Return)

\* played cells are not taken out
SafeMovesWithPlayed == safes

\* make_safe_move: the cells it can return (None when there is none)
make_safe_move == safes \ moves_made

\* known mines are not taken out
RandomMovesWithMines == Cells \ moves_made

\* make_random_move: the cells it can return (None when there is none)
make_random_move == (Cells \ moves_made) \ mines

\* the knowledge base as the list of sentences
KB == Observable(moves_made, Engine).kb

Returned == pc = "idle" /\ call.op = "add_knowledge"

\* ---- the move queries, on the engine of a game revealed cell by cell ----
\* Python's None: no cell of any grid
None == <<-1, -1>>

\* the first cell of a set in row-major order
FirstCell(cells) ==
    CHOOSE c \in cells :
        \A d \in cells : c[1] < d[1] \/ (c[1] = d[1] /\ c[2] <= d[2])

\* the driver reveals the cells that are no mines in row-major order, each
\* with its true count
Reveal ==
    /\ Cells \ (board \cup moves_made) # {}
    /\ \E cell \in {FirstCell(Cells \ (board \cup moves_made))} :
          AddKnowledge(cell, nearby_mines(cell))
    /\ UNCHANGED ops

\* lines 281-285: pop() takes any element of the local set safe_moves
MakeSafeMove ==
    /\ pc = "idle"
    /\ \E move \in (IF make_safe_move = {} THEN {None} ELSE make_safe_move) :
          call' = [op |-> "make_safe_move", cell |-> move, count |-> 0,
                   fresh |-> IsFresh, repeat |-> FALSE, hit |-> FALSE]
    /\ pre' = Observable(moves_made, Engine)
    /\ UNCHANGED <<board, moves_made, mines, safes, sentences, knowledge,
                   kb_copy, pos1, pos2, change, pc, had, ops>>

\* lines 296-304: random.sample takes any element of cells_to_choose
MakeRandomMove ==
    /\ pc = "idle"
    /\ \E move \in (IF make_random_move = {} THEN {None} ELSE make_random_move) :
          call' = [op |-> "make_random_move", cell |-> move, count |-> 0,
                   fresh |-> IsFresh, repeat |-> FALSE, hit |-> FALSE]
    /\ pre' = Observable(moves_made, Engine)
    /\ UNCHANGED <<board, moves_made, mines, safes, sentences, knowledge,
                   kb_copy, pos1, pos2, change, pc, had, ops>>

NextMoves ==
    Reveal \/ MakeSafeMove \/ MakeRandomMove \/ Derive \/ NextPass \/ Return

SpecMoves == Init /\ [][NextMoves]_vars

\* C1: every add_knowledge call with an oracle-consistent observation
\* terminates: the loop of inference_update reaches a pass that derives
\* nothing and the call returns.
AddKnowledgeTerminates == (pc # "idle") ~> (pc = "idle")

\* C2: soundness: every cell of mines is a mine of the oracle board, no cell
\* of safes is one, and so make_safe_move cannot return a mine.
Soundness ==
    /\ mines \subseteq board
    /\ safes \cap board = {}
    /\ \A cell \in make_safe_move : ~ is_mine(cell)

SoundnessWitness ==
    /\ Returned
    /\ mines # {}
    /\ make_safe_move # {}

\* C3: no cell is classified both as a mine and as safe.
MinesSafesDisjoint == mines \cap safes = {}

MinesSafesDisjointWitness ==
    /\ Returned
    /\ Cardinality(mines) >= 2
    /\ Cardinality(safes) >= 2

\* C5: every sentence of the knowledge base, derived or mutated by marking,
\* has 0 <= count <= number of its cells.
CountInRange ==
    \A s \in Live(Engine) : 0 <= s.count /\ s.count <= Cardinality(s.cells)

\* a derived sentence is in the list and a mine has been marked
CountInRangeWitness ==
    /\ pc = "scan"
    /\ Len(knowledge) > Len(kb_copy)
    /\ \E s \in Live(Engine) : s.count = 1 /\ Cardinality(s.cells) = 2

\* C6: add_knowledge on a cell already in moves_made leaves moves_made,
\* safes, mines and the list of sentences as they were before the call.
RepeatIsNoOp ==
    (Returned /\ call.repeat) => Observable(moves_made, Engine) = pre

\* C8: on a fresh engine add_knowledge(cell, n) with 0 < n < number of
\* in-bounds neighbours returns with moves_made = safes = {cell}, no mine,
\* and the one sentence (neighbours of cell, n).
FreshCall ==
    /\ Returned
    /\ call.fresh
    /\ 0 < call.count
    /\ call.count < Cardinality(Neighbours(call.cell))

FirstObservation ==
    FreshCall =>
        /\ moves_made = {call.cell}
        /\ safes = {call.cell}
        /\ mines = {}
        /\ KB = << Sentence(Neighbours(call.cell), call.count) >>

FirstObservationWitness ==
    /\ FreshCall
    /\ Cardinality(Neighbours(call.cell)) = 5
    /\ call.count = 2

\* C10: when trivial_update returns, the cells of every sentence that had
\* count = number of cells > 0 are in mines, the cells of every sentence that
\* had count 0 are in safes, and the list holds no sentence that is empty or
\* has count 0 or count = number of cells; so too when add_knowledge returns.
TrivialResolution ==
    pc # "trivial" =>
    /\ had.mines \subseteq mines
    /\ had.safes \subseteq safes
    /\ \A s \in Live(Engine) :
          s.cells # {} /\ s.count # 0 /\ s.count # Cardinality(s.cells)

TrivialResolutionWitness ==
    /\ pc = "idle"
    /\ call.op = "trivial_update"
    /\ had.mines # {}
    /\ had.safes # {}

\* C4: when a mark_mine, mark_safe or add_knowledge call has returned, no
\* sentence of the knowledge base has a cell that is in mines or in safes.
NoClassifiedCellInSentence ==
    pc = "idle" =>
        \A s \in Live(Engine) : s.cells \cap (mines \cup safes) = {}

NoClassifiedCellInSentenceWitness ==
    /\ pc = "idle"
    /\ call.op \in {"mark_mine", "mark_safe"}
    /\ call.hit
    /\ knowledge # <<>>

\* C7: mark_safe(c) twice leaves the engine as mark_safe(c) once does, and
\* so for mark_mine(c): the second call decrements no count again.
MarkIdempotent ==
    \A cell \in Cells :
        /\ mark_mine(mark_mine(Engine, cell), cell) = mark_mine(Engine, cell)
        /\ mark_safe(mark_safe(Engine, cell), cell) = mark_safe(Engine, cell)
        /\ (call.op = "mark_mine" /\ pc = "idle")
               => mark_mine(Engine, call.cell) = Engine
        /\ (call.op = "mark_safe" /\ pc = "idle")
               => mark_safe(Engine, call.cell) = Engine

MarkIdempotentWitness ==
    /\ pc = "idle"
    /\ call.op = "mark_mine"
    /\ call.hit
    /\ \E s \in Live(Engine) : s.count = 0

\* C9: from two non-trivial sentences S1, S2 with S1.cells a proper subset
\* of S2.cells, inference_update returns with S2.cells - S1.cells in mines
\* when S2.count - S1.count is the size of that difference, in safes when it
\* is 0, and with no cell of S1 classified.
SubsetInference ==
    (pc = "idle" /\ call.op = "inference_update") =>
        \A a \in 1 .. 2, b \in 1 .. 2 :
            pre.kb[a].cells \subseteq pre.kb[b].cells /\ a # b =>
                LET rest == pre.kb[b].cells \ pre.kb[a].cells
                    k == pre.kb[b].count - pre.kb[a].count
                IN /\ k = Cardinality(rest) => rest \subseteq mines
                   /\ k = 0 => rest \subseteq safes
                   /\ pre.kb[a].cells \cap (mines \cup safes) = {}

SubsetInferenceWitness ==
    /\ pc = "idle"
    /\ call.op = "inference_update"
    /\ Cardinality(mines) = 2

\* C11: make_safe_move returns a cell of safes that is not in moves_made
\* whenever there is one, returns None exactly when safes is a subset of
\* moves_made, and leaves moves_made, safes, mines and the list of sentences
\* as they were.
SafeMoveContract ==
    call.op = "make_safe_move" =>
        /\ pre.safes \ pre.moves_made # {} =>
               call.cell \in pre.safes \ pre.moves_made
        /\ call.cell = None <=> pre.safes \subseteq pre.moves_made
        /\ Observable(moves_made, Engine) = pre

SafeMoveContractWitness ==
    /\ call.op = "make_safe_move"
    /\ call.cell \in Cells
    /\ moves_made # {}
    /\ knowledge # <<>>

\* C12: make_random_move returns a cell of the grid that is neither in
\* moves_made nor in mines whenever there is one, and None exactly when every
\* cell of the grid is in moves_made or in mines; it never returns a cell of
\* mines.
RandomMoveContract ==
    call.op = "make_random_move" =>
        /\ (Cells \ pre.moves_made) \ pre.mines # {} =>
               call.cell \in (Cells \ pre.moves_made) \ pre.mines
        /\ call.cell = None <=> Cells \subseteq pre.moves_made \cup pre.mines
        /\ call.cell \notin mines

RandomMoveContractWitness ==
    /\ call.op = "make_random_move"
    /\ call.cell = None
    /\ mines # {}

\* C13: a sentence that add_knowledge builds with a count below 0 is never
\* taken for all mines or all safe: the classification step and
\* trivial_update leave mines and safes as they would be without it.
NegativeCountInert ==
    [][ (pc = "idle" /\ call'.op = "add_knowledge") =>
          LET cell == call'.cell
              new_sentence == NewSentence(Engine, cell, call'.count,
                                          moves_made \cup {cell})
              without == trivial_update(mark_safe(Engine, cell))
          IN new_sentence.count < 0 =>
                /\ mines' = without.mines
                /\ safes' = without.safes ]_vars

NegativeCountInertWitness ==
    /\ call.op = "add_knowledge"
    /\ call.count = 0
    /\ mines # {}
    /\ \E s \in Live(Engine) : s.count < 0 /\ Cardinality(s.cells) >= 2

\* C14: every derivation step of inference_update takes at least one cell
\* out of a sentence of the list or puts at least one cell that was in
\* neither set into mines or safes.
DerivationProgress ==
    [][ (pc = "scan" /\ pc' = "scan" /\ change') =>
          \/ \E id \in Range(knowledge) :
                sentences'[id].cells # sentences[id].cells
          \/ (mines' \cup safes') \ (mines \cup safes) # {} ]_vars

\* C15: trivial_update returns from any list of sentences, consistent or
\* not: every pass that sets change leaves empty a sentence of the list that
\* was not empty, and the loop comes to a pass that sets no change.
TrivialUpdateTerminates ==
    /\ [][ (pc = "trivial" /\ change') =>
             \E id \in Range(knowledge) :
                sentences[id].cells # {} /\ sentences'[id].cells = {} ]_vars
    /\ (pc = "trivial") ~> (pc = "idle")

\* a pass has set change and has left a sentence for the next pass to resolve
TrivialUpdateTerminatesWitness ==
    /\ pc = "trivial"
    /\ change
    /\ mines # {}
    /\ \E s \in Live(Engine) : s.cells # {} /\ s.count = 0

\* C16: when add_knowledge or inference_update has returned, the list holds
\* no two sentences that differ in cells or count with the cells of one a
\* subset of the cells of the other.
InferenceFixpoint ==
    (pc = "idle" /\ call.op \in {"add_knowledge", "inference_update"}) =>
        \A a, b \in 1 .. Len(KB) :
            KB[a] # KB[b] => ~ (KB[a].cells \subseteq KB[b].cells)

\* both calls stored a sentence, a derivation made cells safe, and the two
\* sentences are left in the list
InferenceFixpointWitness ==
    /\ Returned
    /\ Len(KB) >= 2
    /\ safes \ moves_made # {}

SentenceMarkFrame ==
    call.op \in {"Sentence.mark_mine", "Sentence.mark_safe"} =>
        LET before == pre.kb[1]
            after == sentences[1]
        IN /\ call.cell \notin before.cells => after = before
           /\ after.cells = before.cells \ {call.cell}
           /\ call.op = "Sentence.mark_safe" => after.count = before.count
           /\ (call.op = "Sentence.mark_mine" /\ call.cell \in before.cells) =>
                  after.count = before.count - 1

\* mark_mine has taken the last cell out of a sentence with count 0
SentenceMarkFrameWitness ==
    /\ call.op = "Sentence.mark_mine"
    /\ call.hit
    /\ pre.kb[1].count = 0
    /\ sentences[1] = Sentence({}, -1)

====
